---------------------------- MODULE Spec2Model ----------------------------
(***************************************************************************)
(* A model of pydian's path resolver (get, _nested_get), mutation engine   *)
(* (_nested_set, _get_tokenized_keypath, drop_keys) and of the Mapper's    *)
(* post-processing (_unpack_tuple_keys, _get_keys_to_drop_set).            *)
(*                                                                         *)
(* Python strings are sequences of one-character strings, so that string   *)
(* operations (replace, split, removesuffix, the path lexer) are modelled  *)
(* by what they do.  Python values are records of one shape.               *)
(***************************************************************************)
EXTENDS Integers, Sequences, FiniteSets, TLC

VARIABLES source, pre, op, ret

vars == <<source, pre, op, ret>>

(***************************************************************************)
(* Python values                                                           *)
(***************************************************************************)
\* A dict key or a token of a tokenized keypath: str, int or tuple of keys.
StrKey(cs) == [k |-> "str", n |-> 0, s |-> cs, el |-> <<>>]

IntKey(i) == [k |-> "int", n |-> i, s |-> <<>>, el |-> <<>>]

TupleKey(keys) == [k |-> "tuple", n |-> 0, s |-> <<>>, el |-> keys]

None == [t |-> "None", n |-> 0, s |-> <<>>, ks |-> <<>>, vs |-> <<>>]

PyInt(i) == [t |-> "int", n |-> i, s |-> <<>>, ks |-> <<>>, vs |-> <<>>]

PyBool(b) == [t |-> "bool", n |-> IF b THEN 1 ELSE 0, s |-> <<>>, ks |-> <<>>, vs |-> <<>>]

PyStr(cs) == [t |-> "str", n |-> 0, s |-> cs, ks |-> <<>>, vs |-> <<>>]

\* A member of the DROP / RelativeObjectLevel enum, with its integer value.
DROP(level) == [t |-> "DROP", n |-> level, s |-> <<>>, ks |-> <<>>, vs |-> <<>>]

List(elems) == [t |-> "list", n |-> 0, s |-> <<>>, ks |-> <<>>, vs |-> elems]

Tuple(elems) == [t |-> "tuple", n |-> 0, s |-> <<>>, ks |-> <<>>, vs |-> elems]

\* A dict keeps its entries in insertion order: keys[i] -> vals[i].
Dict(keys, vals) == [t |-> "dict", n |-> 0, s |-> <<>>, ks |-> keys, vs |-> vals]

IsNone(v) == v.t = "None"

IsList(v) == v.t = "list"

IsDict(v) == v.t = "dict"

IsDROP(v) == v.t = "DROP"

\* bool(v): an Enum member is always true, containers and strings by length.
Truthy(v) ==
    CASE v.t = "None" -> FALSE
      [] v.t = "int" -> v.n # 0
      [] v.t = "bool" -> v.n # 0
      [] v.t = "str" -> Len(v.s) > 0
      [] v.t = "DROP" -> TRUE
      [] OTHER -> Len(v.vs) > 0

Min(S) == CHOOSE x \in S : \A y \in S : x <= y

\* The position of key kk in dict d, 0 when absent.
KeyPos(d, kk) ==
    LET P == {i \in 1..Len(d.ks) : d.ks[i] = kk}
    IN IF P = {} THEN 0 ELSE Min(P)

HasKey(d, kk) == KeyPos(d, kk) # 0

\* A Python sequence index (0-based, negative from the end) as a 1-based
\* position, 0 when out of range (IndexError).
SeqPos(len, i) ==
    IF i >= 0 THEN (IF i < len THEN i + 1 ELSE 0)
    ELSE (IF -i <= len THEN len + i + 1 ELSE 0)

\* seq[a:b] with optional (ha, hb) bounds, Python's clamping.
ClampIdx(len, i) ==
    IF i < 0 THEN (IF len + i < 0 THEN 0 ELSE len + i)
    ELSE (IF i > len THEN len ELSE i)

PySlice(seq, ha, a, hb, b) ==
    LET lo == IF ha THEN ClampIdx(Len(seq), a) ELSE 0
        hi == IF hb THEN ClampIdx(Len(seq), b) ELSE Len(seq)
    IN IF lo >= hi THEN <<>> ELSE SubSeq(seq, lo + 1, hi)

(***************************************************************************)
(* Python string operations on character sequences                         *)
(***************************************************************************)
Digits == <<"0", "1", "2", "3", "4", "5", "6", "7", "8", "9">>

IsDigit(c) == \E i \in 1..Len(Digits) : Digits[i] = c

DigitVal(c) == (CHOOSE i \in 1..Len(Digits) : Digits[i] = c) - 1

\* str.isnumeric(): non-empty and all digits.
IsNumeric(cs) == Len(cs) > 0 /\ \A i \in 1..Len(cs) : IsDigit(cs[i])

RECURSIVE NatOf(_)
NatOf(cs) ==
    IF cs = <<>> THEN 0
    ELSE 10 * NatOf(SubSeq(cs, 1, Len(cs) - 1)) + DigitVal(cs[Len(cs)])

RemovePrefix(cs, c) ==
    IF Len(cs) > 0 /\ cs[1] = c THEN SubSeq(cs, 2, Len(cs)) ELSE cs

\* int(cs) for an optional "-" followed by digits.
IntOf(cs) == IF Len(cs) > 0 /\ cs[1] = "-" THEN 0 - NatOf(Tail(cs)) ELSE NatOf(cs)

Contains(cs, c) == \E i \in 1..Len(cs) : cs[i] = c

\* str.replace(c, r) for a one-character c and a replacement string r.
RECURSIVE Replace(_, _, _)
Replace(cs, c, r) ==
    IF cs = <<>> THEN <<>>
    ELSE (IF cs[1] = c THEN r ELSE <<cs[1]>>) \o Replace(Tail(cs), c, r)

\* str.split(c): the pieces between occurrences of c (at least one piece).
RECURSIVE Split(_, _)
Split(cs, c) ==
    LET P == {i \in 1..Len(cs) : cs[i] = c}
    IN IF P = {} THEN <<cs>>
       ELSE <<SubSeq(cs, 1, Min(P) - 1)>> \o Split(SubSeq(cs, Min(P) + 1, Len(cs)), c)

WildcardSuffix == <<"[", "*", "]">>

EndsWith(cs, suf) ==
    Len(cs) >= Len(suf) /\ SubSeq(cs, Len(cs) - Len(suf) + 1, Len(cs)) = suf

RemoveSuffix(cs, suf) ==
    IF EndsWith(cs, suf) THEN SubSeq(cs, 1, Len(cs) - Len(suf)) ELSE cs


(***************************************************************************)
(* jmespath.search, for the path grammar pydian documents: fields, [n],    *)
(* [a:b], [*].  Lexer, parser and tree interpreter.                        *)
(***************************************************************************)
IdStartChars ==
    {"a", "b", "c", "d", "e", "f", "g", "h", "i", "j", "k", "l", "m", "n",
     "o", "p", "q", "r", "s", "t", "u", "v", "w", "x", "y", "z", "_"}

IsIdChar(c) == c \in IdStartChars \/ IsDigit(c)

Tok(ty, cs, i) == [ty |-> ty, s |-> cs, n |-> i]

\* The first position at or after i whose character fails P, Len+1 if none.
RunEnd(cs, i, InRun(_)) ==
    LET P == {j \in i..Len(cs) : ~InRun(cs[j])}
    IN IF P = {} THEN Len(cs) + 1 ELSE Min(P)

RECURSIVE Lex(_)
Lex(cs) ==
    IF cs = <<>> THEN <<>>
    ELSE LET c == cs[1]
             idEnd == RunEnd(cs, 2, IsIdChar)
             numEnd == RunEnd(cs, 2, IsDigit)
         IN CASE c = "." -> <<Tok("dot", <<>>, 0)>> \o Lex(Tail(cs))
              [] c = "[" -> <<Tok("lbracket", <<>>, 0)>> \o Lex(Tail(cs))
              [] c = "]" -> <<Tok("rbracket", <<>>, 0)>> \o Lex(Tail(cs))
              [] c = "*" -> <<Tok("star", <<>>, 0)>> \o Lex(Tail(cs))
              [] c = ":" -> <<Tok("colon", <<>>, 0)>> \o Lex(Tail(cs))
              [] c \in IdStartChars ->
                    <<Tok("id", SubSeq(cs, 1, idEnd - 1), 0)>>
                        \o Lex(SubSeq(cs, idEnd, Len(cs)))
              [] IsDigit(c) ->
                    <<Tok("number", <<>>, NatOf(SubSeq(cs, 1, numEnd - 1)))>>
                        \o Lex(SubSeq(cs, numEnd, Len(cs)))
              [] c = "-" /\ numEnd > 2 ->
                    <<Tok("number", <<>>, 0 - NatOf(SubSeq(cs, 2, numEnd - 1)))>>
                        \o Lex(SubSeq(cs, numEnd, Len(cs)))
              [] OTHER -> <<Tok("error", <<>>, 0)>>

\* One step of a parsed path.
Field(name) == [op |-> "field", s |-> name, ha |-> FALSE, a |-> 0, hb |-> FALSE, b |-> 0]

Index(i) == [op |-> "index", s |-> <<>>, ha |-> TRUE, a |-> i, hb |-> FALSE, b |-> 0]

Wildcard == [op |-> "wildcard", s |-> <<>>, ha |-> FALSE, a |-> 0, hb |-> FALSE, b |-> 0]

Slice(ha, a, hb, b) == [op |-> "slice", s |-> <<>>, ha |-> ha, a |-> a, hb |-> hb, b |-> b]

ParseFail == [ok |-> FALSE, steps |-> <<>>]

Then(step, rest) == IF rest.ok THEN [ok |-> TRUE, steps |-> <<step>> \o rest.steps] ELSE ParseFail

Ty(toks, i) == IF i <= Len(toks) THEN toks[i].ty ELSE "eof"

Drop(toks, k) == SubSeq(toks, k + 1, Len(toks))

\* What may follow a parsed step: ".name", or a bracket specifier.
RECURSIVE ParsePostfix(_)
ParsePostfix(toks) ==
    CASE toks = <<>> -> [ok |-> TRUE, steps |-> <<>>]
      [] Ty(toks, 1) = "dot" /\ Ty(toks, 2) = "id" ->
            Then(Field(toks[2].s), ParsePostfix(Drop(toks, 2)))
      [] Ty(toks, 1) = "lbracket" /\ Ty(toks, 2) = "number" /\ Ty(toks, 3) = "rbracket" ->
            Then(Index(toks[2].n), ParsePostfix(Drop(toks, 3)))
      [] Ty(toks, 1) = "lbracket" /\ Ty(toks, 2) = "star" /\ Ty(toks, 3) = "rbracket" ->
            Then(Wildcard, ParsePostfix(Drop(toks, 3)))
      [] Ty(toks, 1) = "lbracket" /\ Ty(toks, 2) = "colon" /\ Ty(toks, 3) = "rbracket" ->
            Then(Slice(FALSE, 0, FALSE, 0), ParsePostfix(Drop(toks, 3)))
      [] Ty(toks, 1) = "lbracket" /\ Ty(toks, 2) = "number" /\ Ty(toks, 3) = "colon"
            /\ Ty(toks, 4) = "rbracket" ->
            Then(Slice(TRUE, toks[2].n, FALSE, 0), ParsePostfix(Drop(toks, 4)))
      [] Ty(toks, 1) = "lbracket" /\ Ty(toks, 2) = "colon" /\ Ty(toks, 3) = "number"
            /\ Ty(toks, 4) = "rbracket" ->
            Then(Slice(FALSE, 0, TRUE, toks[3].n), ParsePostfix(Drop(toks, 4)))
      [] Ty(toks, 1) = "lbracket" /\ Ty(toks, 2) = "number" /\ Ty(toks, 3) = "colon"
            /\ Ty(toks, 4) = "number" /\ Ty(toks, 5) = "rbracket" ->
            Then(Slice(TRUE, toks[2].n, TRUE, toks[4].n), ParsePostfix(Drop(toks, 5)))
      [] OTHER -> ParseFail

\* An expression starts with a field name or a bracket specifier.
Parse(toks) ==
    CASE Ty(toks, 1) = "id" -> Then(Field(toks[1].s), ParsePostfix(Drop(toks, 1)))
      [] Ty(toks, 1) = "lbracket" -> ParsePostfix(toks)
      [] OTHER -> ParseFail

\* The interpreter: a field of a non-dict, an index of a non-list or out of
\* range give null; a wildcard or a slice projects the rest of the path over
\* the elements and keeps the non-null results.
RECURSIVE Interpret(_, _)
Interpret(steps, v) ==
    IF steps = <<>> THEN v
    ELSE LET st == steps[1]
             rest == Tail(steps)
             Project(elems) ==
                 LET R == [i \in 1..Len(elems) |-> Interpret(rest, elems[i])]
                 IN List(SelectSeq(R, LAMBDA r : ~IsNone(r)))
         IN CASE st.op = "field" ->
                    IF IsDict(v) /\ HasKey(v, StrKey(st.s))
                    THEN Interpret(rest, v.vs[KeyPos(v, StrKey(st.s))])
                    ELSE None
              [] st.op = "index" ->
                    IF IsList(v) /\ SeqPos(Len(v.vs), st.a) # 0
                    THEN Interpret(rest, v.vs[SeqPos(Len(v.vs), st.a)])
                    ELSE None
              [] st.op = "wildcard" ->
                    IF IsList(v) THEN Project(v.vs) ELSE None
              [] OTHER ->
                    IF IsList(v) THEN Project(PySlice(v.vs, st.ha, st.a, st.hb, st.b))
                    ELSE None

\* jmespath.search(key, data): the value, or a raised parse error.
Search(key, data) ==
    LET toks == Lex(key)
        ast == Parse(toks)
    IN IF ast.ok THEN [err |-> "", val |-> Interpret(ast.steps, data)]
       ELSE [err |-> "ParseError", val |-> None]


(***************************************************************************)
(* dicts.py                                                                *)
(***************************************************************************)
\* The outcome of a call: exc is "" or the name of the exception raised.
Returned(v) == [exc |-> "", val |-> v]

Raised(e) == [exc |-> e, val |-> None]

\* Keys using the multi-select "(a,b)" syntax are outside the grammar modelled
\* by Search; has_tuple is computed as the code does and such keys are
\* rejected by the parser.
has_tuple(key) == Contains(key, "(") /\ Contains(key, ")")

\* key.removesuffix("[*]") when key ends with "[*]"
strip_wildcard(key) ==
    IF EndsWith(key, WildcardSuffix) THEN RemoveSuffix(key, WildcardSuffix) ELSE key

\* key.replace("(", "[").replace(")", "]") when has_tuple
tuple_syntax(key) ==
    IF has_tuple(key) THEN Replace(Replace(key, "(", <<"[">>), ")", <<"]">>) ELSE key

\* res = tuple(res) for a list found under a tuple key
as_tuple(res, is_tuple) == IF is_tuple /\ IsList(res) THEN Tuple(res.vs) ELSE res

\* [r if r is not None else default for r in res] for a list res
default_elements(res, default) ==
    IF IsList(res)
    THEN List([i \in 1..Len(res.vs) |-> IF IsNone(res.vs[i]) THEN default ELSE res.vs[i]])
    ELSE res

\* A result left null instead of replaced by the default.
or_default_forgotten(res, default) == res

\* if res is None: res = default
or_default(res, default) == IF IsNone(res) THEN default ELSE res

\* What _nested_get makes of the outcome of jmespath.search.
nested_get_result(found, is_tuple, default) ==
    IF found.err # "" THEN Raised(found.err)
    ELSE Returned(or_default(default_elements(as_tuple(found.val, is_tuple), default),
                             default))

_nested_get(src, key, default) ==
    nested_get_result(Search(tuple_syntax(strip_wildcard(key)), src),
                      has_tuple(strip_wildcard(key)), default)

\* lib.util.flatten_list: nested lists recursively flattened, in order.
RECURSIVE flatten_seq(_)
flatten_seq(elems) ==
    IF elems = <<>> THEN <<>>
    ELSE (IF IsList(elems[1]) THEN flatten_seq(elems[1].vs) ELSE <<elems[1]>>)
            \o flatten_seq(Tail(elems))

flatten_list(v) == List(flatten_seq(v.vs))

\* Caller-supplied functions, by name.  call_fn gives the outcome of fn(v).
ApplyFns == {"len", "wrap", "to_none"}

call_fn(fn, v) ==
    CASE fn = "len" ->
            IF v.t \in {"list", "tuple", "dict"} THEN Returned(PyInt(Len(v.vs)))
            ELSE IF v.t = "str" THEN Returned(PyInt(Len(v.s)))
            ELSE Raised("TypeError")
      [] fn = "wrap" -> Returned(List(<<v>>))
      [] OTHER -> Returned(None)

\* Caller-supplied predicates, by name; "" stands for only_if=None.
OnlyIfFns == {"", "is_list", "never"}

call_only_if(fn, v) ==
    CASE fn = "is_list" -> IsList(v)
      [] OTHER -> FALSE

\* The apply loop of get: st is [exc, val, log]; log records each call made.
RECURSIVE apply_loop(_, _)
apply_loop(fns, st) ==
    IF fns = <<>> THEN st
    ELSE LET r == call_fn(fns[1], st.val)
             log2 == Append(st.log, fns[1])
         IN IF r.exc # "" THEN [exc |-> "RuntimeError", val |-> None, log |-> log2]
            ELSE IF IsNone(r.val) THEN [exc |-> "", val |-> None, log |-> log2]
            ELSE apply_loop(Tail(fns), [exc |-> "", val |-> r.val, log |-> log2])

\* if isinstance(source, list): source = {"_": source}; key = "_" + key
wrap_source(src) == IF IsList(src) THEN Dict(<<StrKey(<<"_">>)>>, <<src>>) ELSE src

wrap_key(src, key) == IF IsList(src) THEN <<"_">> \o key ELSE key

\* The stages of get act on [exc, val, log]: the exception raised so far, the
\* current res, and the log of the stages that ran and the functions called.
stage_resolve(g) ==
    [exc |-> g.exc, val |-> g.val, log |-> IF g.exc = "" THEN <<"resolve">> ELSE <<>>]

\* if flatten and isinstance(res, list): res = flatten_list(res)
stage_flatten(st, flatten) ==
    IF st.exc = "" /\ flatten /\ IsList(st.val)
    THEN [exc |-> "", val |-> flatten_list(st.val), log |-> Append(st.log, "flatten")]
    ELSE st

\* A failed only_if yielding the value unchanged instead of null.
stage_only_if_keeps(st, only_if) ==
    IF st.exc = "" /\ ~IsNone(st.val) /\ only_if # ""
    THEN (IF call_only_if(only_if, st.val)
          THEN [exc |-> "", val |-> st.val, log |-> Append(st.log, "only_if:true")]
          ELSE [exc |-> "", val |-> st.val, log |-> Append(st.log, "only_if:false")])
    ELSE st

\* if res is not None and only_if: res = res if only_if(res) else None
stage_only_if(st, only_if) ==
    IF st.exc = "" /\ ~IsNone(st.val) /\ only_if # ""
    THEN (IF call_only_if(only_if, st.val)
          THEN [exc |-> "", val |-> st.val, log |-> Append(st.log, "only_if:true")]
          ELSE [exc |-> "", val |-> None, log |-> Append(st.log, "only_if:false")])
    ELSE st

\* if res is not None and apply: the loop over the functions
stage_apply(st, apply) ==
    IF st.exc = "" /\ ~IsNone(st.val) /\ apply # <<>> THEN apply_loop(apply, st) ELSE st

\* if drop_level and res is None: res = drop_level
stage_drop_level(st, drop_level) ==
    IF st.exc = "" /\ Truthy(drop_level) /\ IsNone(st.val)
    THEN [exc |-> "", val |-> drop_level, log |-> Append(st.log, "drop_level")]
    ELSE st

get(src, key, default, apply, only_if, drop_level, flatten) ==
    stage_drop_level(
        stage_apply(
            stage_only_if(
                stage_flatten(
                    stage_resolve(_nested_get(wrap_source(src), wrap_key(src, key), default)),
                    flatten),
                only_if),
            apply),
        drop_level)

\* "a[0].b[-1].c" -> ("a", 0, "b", -1, "c")
_get_tokenized_keypath(key) ==
    LET tokenized_key == Replace(Replace(key, "[", <<".">>), "]", <<>>)
        keypath == Split(tokenized_key, ".")
    IN [i \in 1..Len(keypath) |->
            IF IsNumeric(RemovePrefix(keypath[i], "-"))
            THEN IntKey(IntOf(keypath[i]))
            ELSE StrKey(keypath[i])]

\* node[k] for reading: [st, node], st "" or the exception Python raises.
GetItem(node, k) ==
    CASE node.t = "dict" ->
            IF HasKey(node, k) THEN [st |-> "", node |-> node.vs[KeyPos(node, k)]]
            ELSE [st |-> "KeyError", node |-> None]
      [] node.t \in {"list", "tuple"} ->
            IF k.k # "int" THEN [st |-> "TypeError", node |-> None]
            ELSE IF SeqPos(Len(node.vs), k.n) = 0 THEN [st |-> "IndexError", node |-> None]
            ELSE [st |-> "", node |-> node.vs[SeqPos(Len(node.vs), k.n)]]
      [] node.t = "str" ->
            IF k.k # "int" THEN [st |-> "TypeError", node |-> None]
            ELSE IF SeqPos(Len(node.s), k.n) = 0 THEN [st |-> "IndexError", node |-> None]
            ELSE [st |-> "", node |-> PyStr(<<node.s[SeqPos(Len(node.s), k.n)]>>)]
      [] OTHER -> [st |-> "TypeError", node |-> None]

\* An assignment that removes the list element instead of overwriting it.
SetItem_delete(node, k, target) ==
    CASE node.t = "dict" ->
            IF HasKey(node, k)
            THEN [st |-> "", node |-> [node EXCEPT !.vs[KeyPos(node, k)] = target]]
            ELSE [st |-> "", node |-> Dict(Append(node.ks, k), Append(node.vs, target))]
      [] node.t = "list" ->
            IF k.k # "int" THEN [st |-> "TypeError", node |-> node]
            ELSE IF SeqPos(Len(node.vs), k.n) = 0 THEN [st |-> "IndexError", node |-> node]
            ELSE [st |-> "",
                  node |-> List(SubSeq(node.vs, 1, SeqPos(Len(node.vs), k.n) - 1)
                                \o SubSeq(node.vs, SeqPos(Len(node.vs), k.n) + 1,
                                          Len(node.vs)))]
      [] OTHER -> [st |-> "TypeError", node |-> node]

\* node[k] = target: [st, node] with the node after the assignment.
SetItem(node, k, target) ==
    CASE node.t = "dict" ->
            IF HasKey(node, k)
            THEN [st |-> "", node |-> [node EXCEPT !.vs[KeyPos(node, k)] = target]]
            ELSE [st |-> "", node |-> Dict(Append(node.ks, k), Append(node.vs, target))]
      [] node.t = "list" ->
            IF k.k # "int" THEN [st |-> "TypeError", node |-> node]
            ELSE IF SeqPos(Len(node.vs), k.n) = 0 THEN [st |-> "IndexError", node |-> node]
            ELSE [st |-> "", node |-> [node EXCEPT !.vs[SeqPos(Len(node.vs), k.n)] = target]]
      [] OTHER -> [st |-> "TypeError", node |-> node]

\* Follow all tokens but the last, assign at the last; the node rebuilt.
RECURSIVE SetAt(_, _, _)
SetAt(node, toks, target) ==
    IF Len(toks) = 1 THEN SetItem(node, toks[1], target)
    ELSE LET child == GetItem(node, toks[1])
             sub == SetAt(child.node, Tail(toks), target)
             pos == IF node.t = "dict" THEN KeyPos(node, toks[1])
                    ELSE SeqPos(Len(node.vs), toks[1].n)
         IN IF child.st # "" THEN [st |-> child.st, node |-> node]
            ELSE IF sub.st # "" THEN [st |-> sub.st, node |-> node]
            ELSE IF node.t \in {"dict", "list", "tuple"}
                 THEN [st |-> "", node |-> [node EXCEPT !.vs[pos] = sub.node]]
                 ELSE [st |-> "", node |-> node]

\* _nested_set: exc is the exception that escapes ("" if none), val the value
\* returned (the source, or None), tree the caller's tree afterwards.
_nested_set(src, tokenized_key_list, target) ==
    LET r == IF tokenized_key_list = <<>> THEN [st |-> "IndexError", node |-> src]
             ELSE SetAt(src, tokenized_key_list, target)
    IN CASE r.st = "" -> [exc |-> "", val |-> r.node, tree |-> r.node]
         [] r.st = "IndexError" -> [exc |-> "", val |-> None, tree |-> src]
         [] OTHER -> [exc |-> r.st, val |-> None, tree |-> src]

EmptyDict == Dict(<<>>, <<>>)

\* A bounds check that lets a level one past the path's depth through.
drop_level_invalid_off_by_one(v, curr_keypath) ==
    v.n > 0 \/ (0 - v.n) > Len(curr_keypath) + 1

\* "out of bounds": v.value > 0 or -1 * v.value > len(curr_keypath)
drop_level_invalid(v, curr_keypath) ==
    v.n > 0 \/ (0 - v.n) > Len(curr_keypath)

\* curr_keypath[: v.value]
shorten_keypath(curr_keypath, v) == PySlice(curr_keypath, FALSE, 0, TRUE, v.n)

\* The loop of drop_keys over keys_to_drop, from the state (res, seen_keys).
\* exc: the exception that escapes; val: the value returned; tree: the
\* caller's source afterwards (it is mutated in place).
RECURSIVE drop_loop(_, _, _)
RECURSIVE drop_found(_, _, _, _, _)
RECURSIVE drop_set(_, _, _, _)
RECURSIVE drop_after_set(_, _, _, _, _)

drop_loop(keys, res, seen_keys) ==
    IF keys = <<>> THEN [exc |-> "", val |-> res, tree |-> res]
    ELSE IF _get_tokenized_keypath(keys[1]) \in seen_keys
         THEN drop_loop(Tail(keys), res, seen_keys \cup {_get_tokenized_keypath(keys[1])})
         ELSE drop_found(keys, res, seen_keys, _get_tokenized_keypath(keys[1]),
                         _nested_get(res, keys[1], None))

\* if v := _nested_get(res, key): the DROP check and the shortened keypath
drop_found(keys, res, seen_keys, curr_keypath, g) ==
    IF g.exc # "" THEN [exc |-> g.exc, val |-> None, tree |-> res]
    ELSE IF ~Truthy(g.val) THEN drop_loop(Tail(keys), res, seen_keys)
    ELSE IF ~IsDROP(g.val) THEN drop_set(keys, res, seen_keys, curr_keypath)
    ELSE IF drop_level_invalid(g.val, curr_keypath)
         THEN [exc |-> "RuntimeError", val |-> None, tree |-> res]
    ELSE IF Len(shorten_keypath(curr_keypath, g.val)) = 0
         THEN [exc |-> "", val |-> EmptyDict, tree |-> res]
    ELSE drop_set(keys, res, seen_keys, shorten_keypath(curr_keypath, g.val))

\* if updated := _nested_set(res, curr_keypath, None): res = updated
drop_set(keys, res, seen_keys, curr_keypath) ==
    drop_after_set(keys, res, seen_keys, curr_keypath, _nested_set(res, curr_keypath, None))

\* seen_keys.add(curr_keypath)
drop_after_set(keys, res, seen_keys, curr_keypath, updated) ==
    IF updated.exc # "" THEN [exc |-> updated.exc, val |-> None, tree |-> res]
    ELSE drop_loop(Tail(keys), updated.tree, seen_keys \cup {curr_keypath})

drop_keys(src, keys_to_drop) == drop_loop(keys_to_drop, src, {})


(***************************************************************************)
(* Inputs                                                                  *)
(***************************************************************************)
\* The longest list in a source tree.
MaxLen == 2

SeqsUpTo(S, n) == UNION {[1..m -> S] : m \in 0..n}

ka == StrKey(<<"a">>)

kb == StrKey(<<"b">>)

kl == StrKey(<<"l">>)

kx == StrKey(<<"x">>)

ky == StrKey(<<"y">>)

\* Elements of the list field l: mappings with and without x, and a null.
GetElems ==
    {Dict(<<kx>>, <<List(<<PyInt(3), List(<<PyInt(4)>>)>>)>>),
     Dict(<<ky>>, <<PyInt(2)>>),
     None}

GetLeaves == {None, PyInt(1)}

\* {"a": {"b": leaf}, "l": [...]} and top-level lists [...].
GetSources ==
    {Dict(<<ka, kl>>, <<Dict(<<kb>>, <<leaf>>), List(elems)>>) :
        leaf \in GetLeaves, elems \in SeqsUpTo(GetElems, MaxLen)}
    \cup {List(elems) : elems \in SeqsUpTo(GetElems, MaxLen)}

GetKeys ==
    {<<"a">>, <<"a", ".", "b">>, <<"a", ".", "c">>, <<"a", ".", "b", ".", "c">>,
     <<"a", "[", "0", "]">>, <<"q", ".", "r">>,
     <<"l">>, <<"l", "[", "0", "]">>, <<"l", "[", "1", "]", ".", "x">>,
     <<"l", "[", "-", "1", "]", ".", "x">>, <<"l", "[", "5", "]">>,
     <<"l", "[", "*", "]", ".", "x">>, <<"l", "[", "*", "]">>,
     <<"l", "[", "1", ":", "]", ".", "x">>, <<"a", "[", ":", "1", "]">>,
     <<"[", "0", "]">>, <<"[", "0", "]", ".", "x">>, <<"[", "*", "]", ".", "x">>,
     <<"[", "-", "3", "]">>}

GetDefaults == {None, PyInt(7)}

ApplyChains ==
    {<<>>, <<"len">>, <<"to_none", "len">>, <<"wrap", "to_none", "len">>}

DropLevels == {None, DROP(-1)}

NoOp == [name |-> "init"]

(***************************************************************************)
(* The resolver: get called on a caller-owned tree                         *)
(***************************************************************************)
InitGet ==
    /\ source \in GetSources
    /\ pre = source
    /\ op = NoOp
    /\ ret = [exc |-> "", val |-> None, log |-> <<>>]

CallGet(key, default, apply, only_if, drop_level, flatten) ==
    /\ op = NoOp
    /\ pre' = source
    /\ op' = [name |-> "get", key |-> key, default |-> default, apply |-> apply,
              only_if |-> only_if, drop_level |-> drop_level, flatten |-> flatten]
    /\ ret' = get(source, key, default, apply, only_if, drop_level, flatten)
    /\ UNCHANGED source

NextGet ==
    \E key \in GetKeys, default \in GetDefaults, apply \in ApplyChains,
       only_if \in OnlyIfFns, drop_level \in DropLevels, flatten \in BOOLEAN :
        CallGet(key, default, apply, only_if, drop_level, flatten)

SpecGet == InitGet /\ [][NextGet]_vars


(***************************************************************************)
(* Properties of get                                                       *)
(***************************************************************************)
\* Whether following the steps by hand from v reaches a value: d[name] needs
\* a mapping holding name, s[i] a sequence with i in range, a wildcard or a
\* slice a sequence; the value reached must not be null.
RECURSIVE Resolves(_, _)
Resolves(steps, v) ==
    IF steps = <<>> THEN ~IsNone(v)
    ELSE CASE steps[1].op = "field" ->
                 /\ IsDict(v)
                 /\ \E i \in 1..Len(v.ks) :
                        v.ks[i] = StrKey(steps[1].s) /\ Resolves(Tail(steps), v.vs[i])
           [] steps[1].op = "index" ->
                 /\ IsList(v)
                 /\ -Len(v.vs) <= steps[1].a
                 /\ steps[1].a < Len(v.vs)
                 /\ Resolves(Tail(steps),
                             v.vs[IF steps[1].a >= 0 THEN steps[1].a + 1
                                  ELSE Len(v.vs) + steps[1].a + 1])
           [] OTHER -> IsList(v)

PathResolves(key, tree) == Resolves(Parse(Lex(key)).steps, tree)

PlainGet ==
    /\ op.name = "get"
    /\ op.apply = <<>>
    /\ op.only_if = ""
    /\ op.drop_level = None
    /\ ~op.flatten

\* C1: get(T, p, default=D) without apply, only_if or drop_level, on a path p
\* that does not resolve to a value in T (missing key at any depth,
\* out-of-range index, index or slice of a non-sequence), returns exactly D
\* and raises nothing.
C1_MissingPathReturnsDefault ==
    (PlainGet /\ ~PathResolves(op.key, pre)) =>
        (ret.exc = "" /\ ret.val = op.default)

\* An out-of-range index into l, and a missing key below a mapping inside a
\* top-level list, each answered with the default 7.
C1_Witness ==
    /\ PlainGet
    /\ ~PathResolves(op.key, pre)
    /\ op.default = PyInt(7)
    /\ ret.val = PyInt(7)
    /\ \/ IsDict(pre) /\ op.key = <<"l", "[", "5", "]">> /\ Len(pre.vs[2].vs) = MaxLen
       \/ IsList(pre) /\ op.key = <<"[", "0", "]", ".", "x">> /\ Len(pre.vs) > 0

lstarx == <<"l", "[", "*", "]", ".", "x">>

\* C2: for a sequence field l of mappings, get(T, "l[*].x", default=D) is a
\* sequence as long as l whose i-th element is l[i].x, or D where l[i] has
\* no x, in the original order.
C2_WildcardKeepsLength ==
    LET l == pre.vs[2].vs
    IN (/\ PlainGet
        /\ op.key = lstarx
        /\ IsDict(pre)
        /\ \A i \in 1..Len(l) : IsDict(l[i])) =>
            /\ ret.exc = ""
            /\ IsList(ret.val)
            /\ Len(ret.val.vs) = Len(l)
            /\ \A i \in 1..Len(l) :
                  ret.val.vs[i] = IF HasKey(l[i], kx) THEN l[i].vs[KeyPos(l[i], kx)]
                                  ELSE op.default

StageRank(e) ==
    CASE e = "resolve" -> 0
      [] e = "flatten" -> 1
      [] e \in {"only_if:true", "only_if:false"} -> 2
      [] e \in ApplyFns -> 3
      [] OTHER -> 4

AppliedFns(log) == SelectSeq(log, LAMBDA e : e \in ApplyFns)

\* C3: the stages of get run in the order resolve, flatten, only_if, apply
\* (left to right, stopping at the first null), drop_level; and when only_if
\* returns false no apply function is called and the call returns null, or
\* the drop_level value when one is given, never the default.
C3_StageOrder ==
    (op.name = "get" /\ ret.exc # "ParseError") =>
        LET log == ret.log
            fns == AppliedFns(log)
            final == IF op.drop_level = None THEN None ELSE op.drop_level
        IN /\ Len(log) > 0 /\ log[1] = "resolve"
           /\ \A i \in 1..(Len(log) - 1) :
                 \/ StageRank(log[i]) < StageRank(log[i + 1])
                 \/ StageRank(log[i]) = 3 /\ StageRank(log[i + 1]) = 3
           /\ Len(fns) <= Len(op.apply) /\ fns = SubSeq(op.apply, 1, Len(fns))
           /\ (ret.exc = "" /\ Len(fns) < Len(op.apply)) => ret.val = final
           /\ (\E i \in 1..Len(log) : log[i] = "only_if:false") =>
                 /\ fns = <<>>
                 /\ ret.exc = ""
                 /\ ret.val = final

\* only_if rejects the resolved a.b = 1: "len" is not called, and the result
\* is the drop_level value, not the default 7.
C3_Witness ==
    /\ op.name = "get"
    /\ op.key = <<"a", ".", "b">>
    /\ op.only_if = "never"
    /\ op.apply = <<"len">>
    /\ op.default = PyInt(7)
    /\ op.drop_level = DROP(-1)
    /\ IsDict(pre) /\ pre.vs[1].vs[1] = PyInt(1)
    /\ ret.log = <<"resolve", "only_if:false", "drop_level">>
    /\ ret.val = DROP(-1)


(***************************************************************************)
(* The mutation engine: _nested_set and drop_keys on a caller-owned tree   *)
(***************************************************************************)
\* The most paths in one drop_keys request.
MaxKeys == 2

kc == StrKey(<<"c">>)

kq == StrKey(<<"q">>)

DropLeaves ==
    {None, PyInt(0), PyInt(1), PyStr(<<>>), PyBool(FALSE), List(<<>>), EmptyDict,
     Dict(<<kc>>, <<PyInt(1)>>),
     DROP(1), DROP(0), DROP(-1), DROP(-2), DROP(-3)}

DropElems == {Dict(<<kx>>, <<PyInt(1)>>), Dict(<<kx>>, <<DROP(-1)>>), PyInt(0)}

\* {"a": {"b": leaf}, "l": [...]}
DropSources ==
    {Dict(<<ka, kl>>, <<Dict(<<kb>>, <<leaf>>), List(elems)>>) :
        leaf \in DropLeaves, elems \in SeqsUpTo(DropElems, MaxLen)}

DropKeyStrings ==
    {<<"a">>, <<"a", ".", "b">>, <<"a", ".", "b", ".", "c">>,
     <<"l", "[", "0", "]">>, <<"l", "[", "0", "]", ".", "x">>,
     <<"l", "[", "0", "0", "]", ".", "x">>, <<"l", "[", "-", "1", "]", ".", "x">>}

SetKeypaths ==
    {<<>>, <<ka>>, <<ka, kb>>, <<ka, kc>>, <<ka, kb, kc>>, <<kq, kb>>, <<ka, IntKey(0)>>,
     <<kl, IntKey(0)>>, <<kl, IntKey(-1), kx>>, <<kl, IntKey(5)>>, <<kl, IntKey(5), kx>>,
     <<kl, kx>>}

SetTargets == {None, PyInt(9)}

InitSet ==
    /\ source \in DropSources
    /\ pre = source
    /\ op = NoOp
    /\ ret = [exc |-> "", val |-> None, tree |-> source]

Call_nested_set(tokenized_key_list, target) ==
    /\ op = NoOp
    /\ pre' = source
    /\ op' = [name |-> "_nested_set", keypath |-> tokenized_key_list, target |-> target]
    /\ ret' = _nested_set(source, tokenized_key_list, target)
    /\ source' = ret'.tree

NextSet ==
    \E tokenized_key_list \in SetKeypaths, target \in SetTargets :
        Call_nested_set(tokenized_key_list, target)

SpecSet == InitSet /\ [][NextSet]_vars

InitDrop == InitSet

Call_drop_keys(keys_to_drop) ==
    /\ op = NoOp
    /\ pre' = source
    /\ op' = [name |-> "drop_keys", keys |-> keys_to_drop]
    /\ ret' = drop_keys(source, keys_to_drop)
    /\ source' = ret'.tree

NextDrop ==
    \E keys_to_drop \in SeqsUpTo(DropKeyStrings, MaxKeys) : Call_drop_keys(keys_to_drop)

SpecDrop == InitDrop /\ [][NextDrop]_vars

(***************************************************************************)
(* Properties of the mutation engine                                       *)
(***************************************************************************)
\* tree[t1][t2]...[tn] by plain indexing: [st, node].
RECURSIVE ItemAt(_, _)
ItemAt(tree, toks) ==
    IF toks = <<>> THEN [st |-> "", node |-> tree]
    ELSE LET r == GetItem(tree, toks[1])
         IN IF r.st # "" THEN r ELSE ItemAt(r.node, Tail(toks))

\* The tokens of a plain dotted/indexed path string.
RECURSIVE StepTokens(_)
StepTokens(steps) ==
    IF steps = <<>> THEN <<>>
    ELSE <<IF steps[1].op = "field" THEN StrKey(steps[1].s) ELSE IntKey(steps[1].a)>>
            \o StepTokens(Tail(steps))

PathTokens(key) == StepTokens(Parse(Lex(key)).steps)

\* The first requested path, its depth and the value it has in the tree.
FirstPath == PathTokens(op.keys[1])

FirstValue == ItemAt(pre, FirstPath).node

FirstIsDrop ==
    /\ op.name = "drop_keys"
    /\ Len(op.keys) >= 1
    /\ ItemAt(pre, FirstPath).st = ""
    /\ IsDROP(FirstValue)

\* C4: for a path of depth d whose value is a prune directive, a level with
\* level > 0 or -level > d makes drop_keys fail with an error (nothing is
\* clamped, the tree is untouched), and a level of exactly -d makes it
\* return an empty mapping.
C4_PruneDepthBoundary ==
    FirstIsDrop =>
        LET d == Len(FirstPath)
            level == FirstValue.n
        IN /\ (level > 0 \/ -level > d) =>
                 (ret.exc = "RuntimeError" /\ source = pre)
           /\ (level = -d) => (ret.exc = "" /\ ret.val = EmptyDict)

\* "a.b" (depth 2) holding a directive of level -3 fails; of level -2 gives {}.
C4_Witness ==
    /\ FirstIsDrop
    /\ op.keys[1] = <<"a", ".", "b">>
    /\ \/ FirstValue = DROP(-3) /\ ret.exc = "RuntimeError"
       \/ FirstValue = DROP(-2) /\ ret.val = EmptyDict

\* C5: a directive of level L in the valid range nulls the path with its
\* last |L| tokens removed: level 0 nulls only the directive's own location,
\* level -1 the parent entry; everything else is unchanged.
C5_ShortenedByLevel ==
    (FirstIsDrop /\ Len(op.keys) = 1 /\ FirstValue.n <= 0
        /\ -FirstValue.n < Len(FirstPath)) =>
        LET target == SubSeq(FirstPath, 1, Len(FirstPath) + FirstValue.n)
        IN /\ ret.exc = ""
           /\ ret.val = SetAt(pre, target, None).node

\* C6: after drop_keys every requested path that held a value that is not a
\* prune directive (0, false, "", [] and {} included) resolves to null, and
\* nothing else has changed.
C6_RequestedPathsNulled ==
    (op.name = "drop_keys" /\ ret.exc = "") =>
        /\ \A i \in 1..Len(op.keys) :
              LET was == ItemAt(pre, PathTokens(op.keys[i]))
                  now == ItemAt(ret.val, PathTokens(op.keys[i]))
              IN (was.st = "" /\ ~IsNone(was.node) /\ ~IsDROP(was.node)) =>
                    (now.st # "" \/ IsNone(now.node))
        /\ (Len(op.keys) = 1 /\ ItemAt(pre, FirstPath).st = ""
                /\ ~IsNone(FirstValue) /\ ~IsDROP(FirstValue)) =>
              ret.val = SetAt(pre, FirstPath, None).node

\* The requested paths without those whose tokenized path occurred earlier.
RECURSIVE Dedup(_, _)
Dedup(keys, earlier) ==
    IF keys = <<>> THEN <<>>
    ELSE IF _get_tokenized_keypath(keys[1]) \in earlier
         THEN Dedup(Tail(keys), earlier)
         ELSE <<keys[1]>> \o Dedup(Tail(keys), earlier \cup {_get_tokenized_keypath(keys[1])})

HasDuplicate(keys) == Dedup(keys, {}) # keys

\* C7: a tokenized path requested more than once is processed once: the
\* outcome (returned tree, caller's tree, no error) is that of the request
\* with the later duplicates removed.
C7_DuplicatesIgnored ==
    (op.name = "drop_keys" /\ HasDuplicate(op.keys)) =>
        /\ ret = drop_keys(pre, Dedup(op.keys, {}))
        /\ source = ret.tree

\* "l[0].x" and "l[00].x" name one tokenized path holding a directive of
\* level -1: l[0] is nulled once and the rest of l is kept.
C7_Witness ==
    /\ op.name = "drop_keys"
    /\ op.keys = <<<<"l", "[", "0", "]", ".", "x">>, <<"l", "[", "0", "0", "]", ".", "x">>>>
    /\ pre.vs[2].vs = <<Dict(<<kx>>, <<DROP(-1)>>), Dict(<<kx>>, <<DROP(-1)>>)>>
    /\ ret.exc = ""
    /\ ret.val.vs[2].vs = <<None, Dict(<<kx>>, <<DROP(-1)>>)>>

\* C10: _nested_set lets no exception out and has two outcomes: it returns
\* the tree with only the final location changed to the value, or it
\* returns the failure value and leaves the tree unchanged.
C10_SetNeverRaises ==
    (op.name = "_nested_set") =>
        /\ ret.exc = ""
        /\ \/ /\ ret.val = source
              /\ op.keypath # <<>>
              /\ ItemAt(source, op.keypath).st = ""
              /\ ItemAt(source, op.keypath).node = op.target
              /\ ItemAt(pre, SubSeq(op.keypath, 1, Len(op.keypath) - 1)).st = ""
           \/ /\ ret.val = None
              /\ source = pre


(***************************************************************************)
(* mapping.py: the Mapper's post-processing of the map_fn result           *)
(***************************************************************************)
\* A RelativeObjectLevel member is the DROP value of dicts.py.
IsROL(v) == v.t = "DROP"

\* str(i) for a natural number.
RECURSIVE NatStr(_)
NatStr(i) == IF i < 10 THEN <<Digits[i + 1]>> ELSE NatStr(i \div 10) \o <<Digits[(i % 10) + 1]>>

\* How an f-string renders a key: a str as itself, a tuple as its repr.
RECURSIVE KeyStr(_)
KeyStr(k) ==
    LET Quoted(e) == IF e.k = "str" THEN <<"'">> \o e.s \o <<"'">> ELSE KeyStr(e)
        Items[i \in 1..Len(k.el)] ==
            IF i = 1 THEN Quoted(k.el[1]) ELSE Items[i - 1] \o <<",", " ">> \o Quoted(k.el[i])
    IN CASE k.k = "str" -> k.s
         [] k.k = "int" -> (IF k.n < 0 THEN <<"-">> \o NatStr(0 - k.n) ELSE NatStr(k.n))
         [] Len(k.el) = 0 -> <<"(", ")">>
         [] Len(k.el) = 1 -> <<"(">> \o Quoted(k.el[1]) \o <<",", ")">>
         [] OTHER -> <<"(">> \o Items[Len(k.el)] \o <<")">>

\* res.pop(k): the dict without its entry at position pos.
RemoveAt(d, pos) ==
    Dict(SubSeq(d.ks, 1, pos - 1) \o SubSeq(d.ks, pos + 1, Len(d.ks)),
         SubSeq(d.vs, 1, pos - 1) \o SubSeq(d.vs, pos + 1, Len(d.vs)))

\* for i, new_key in enumerate(k): res[new_key] = vals[i]
RECURSIVE insert_pairs(_, _, _)
insert_pairs(res, keys, vals) ==
    IF keys = <<>> THEN res
    ELSE insert_pairs(SetItem(res, keys[1], vals[1]).node, Tail(keys), Tail(vals))

RECURSIVE _unpack_tuple_keys(_)
RECURSIVE unpack_list(_)
RECURSIVE unpack_loop(_, _, _)

\* [self._unpack_tuple_keys(obj) if dict else obj for obj in res[k]]
unpack_list(objs) ==
    IF objs = <<>> THEN Returned(List(<<>>))
    ELSE LET head == IF IsDict(objs[1]) THEN _unpack_tuple_keys(objs[1])
                     ELSE Returned(objs[1])
             rest == unpack_list(Tail(objs))
         IN IF head.exc # "" THEN head
            ELSE IF rest.exc # "" THEN rest
            ELSE Returned(List(<<head.val>> \o rest.val.vs))

\* The loop over source.items() from entry i on, res being the copy so far.
unpack_loop(src, i, res) ==
    IF i > Len(src.ks) THEN Returned(res)
    ELSE LET k == src.ks[i]
             v == src.vs[i]
             cur == GetItem(res, k)
             sub == IF IsDict(v)
                    THEN (IF IsDict(cur.node) THEN _unpack_tuple_keys(cur.node)
                          ELSE Raised("AttributeError"))
                    ELSE (CASE cur.node.t \in {"list", "tuple"} -> unpack_list(cur.node.vs)
                            [] cur.node.t = "str" ->
                                  Returned(List([j \in 1..Len(cur.node.s) |->
                                                    PyStr(<<cur.node.s[j]>>)]))
                            [] cur.node.t = "dict" ->
                                  Returned(List([j \in 1..Len(cur.node.ks) |->
                                                    PyStr(KeyStr(cur.node.ks[j]))]))
                            [] OTHER -> Raised("TypeError"))
             popped == RemoveAt(res, KeyPos(res, k))
         IN IF IsDict(v) \/ IsList(v)
            THEN (IF cur.st # "" THEN Raised(cur.st)
                  ELSE IF sub.exc # "" THEN sub
                  ELSE unpack_loop(src, i + 1, SetItem(res, k, sub.val).node))
            ELSE IF k.k = "tuple"
            THEN (IF cur.st # "" THEN Raised(cur.st)
                  ELSE IF ~Truthy(cur.node) THEN unpack_loop(src, i + 1, popped)
                  ELSE IF ~(cur.node.t = "tuple" /\ Len(k.el) = Len(cur.node.vs))
                       THEN Raised("RuntimeError")
                  ELSE unpack_loop(src, i + 1, insert_pairs(popped, k.el, cur.node.vs)))
            ELSE unpack_loop(src, i + 1, res)

_unpack_tuple_keys(src) == unpack_loop(src, 1, src)

RECURSIVE _get_keys_to_drop_set(_, _)
_get_keys_to_drop_set(src, key_prefix) ==
    LET curr_key(i) == IF key_prefix # <<>> THEN key_prefix \o <<".">> \o KeyStr(src.ks[i])
                       ELSE KeyStr(src.ks[i])
        indexed_keypath(i, j) == curr_key(i) \o <<"[">> \o NatStr(j - 1) \o <<"]">>
        of_item(i, j) ==
            LET v == src.vs[i]
                item == v.vs[j]
            IN IF IsDict(item) THEN _get_keys_to_drop_set(item, indexed_keypath(i, j))
               ELSE IF IsROL(v) THEN {indexed_keypath(i, j)}
               ELSE {}
        of_entry(i) ==
            LET v == src.vs[i]
            IN IF IsDict(v) THEN _get_keys_to_drop_set(v, curr_key(i))
               ELSE IF IsList(v) THEN UNION {of_item(i, j) : j \in 1..Len(v.vs)}
               ELSE IF IsROL(v) THEN {curr_key(i)}
               ELSE {}
    IN UNION {of_entry(i) : i \in 1..Len(src.ks)}

kab == TupleKey(<<ka, kb>>)

kk == StrKey(<<"k">>)

kn == StrKey(<<"n">>)

\* Values given to the tuple key ("a", "b").
GroupValues ==
    {Tuple(<<PyInt(1), PyInt(2)>>), Tuple(<<PyInt(1)>>),
     Tuple(<<PyInt(1), PyInt(2), PyInt(3)>>), Tuple(<<>>), None, PyInt(5),
     Dict(<<kc>>, <<PyInt(1)>>), List(<<PyInt(1)>>), DROP(-1)}

MapperElems ==
    {DROP(-1), PyInt(1), Dict(<<kx>>, <<DROP(-1)>>), Dict(<<kab>>, <<Tuple(<<PyInt(1)>>)>>)}

MapperNested ==
    {Dict(<<kx>>, <<DROP(-2)>>), Dict(<<kab>>, <<Tuple(<<DROP(-1), PyInt(2)>>)>>),
     Dict(<<kab>>, <<PyInt(5)>>)}

\* What map_fn returned: {("a","b"): group, "k": [...], "n": {...}}
MapperSources ==
    {Dict(<<kab, kk, kn>>, <<g, List(elems), nested>>) :
        g \in GroupValues, elems \in SeqsUpTo(MapperElems, MaxLen), nested \in MapperNested}

InitMapper ==
    /\ source \in MapperSources
    /\ pre = source
    /\ op = NoOp
    /\ ret = [exc |-> "", val |-> None, keys |-> {}]

\* res = self._unpack_tuple_keys(res.dict())
Call_unpack_tuple_keys ==
    /\ op = NoOp
    /\ pre' = source
    /\ op' = [name |-> "_unpack_tuple_keys"]
    /\ ret' = [exc |-> _unpack_tuple_keys(source).exc,
               val |-> _unpack_tuple_keys(source).val,
               keys |-> {}]
    /\ source' = IF ret'.exc = "" THEN ret'.val ELSE source

\* keys_to_drop = self._get_keys_to_drop_set(res)
Call_get_keys_to_drop_set ==
    /\ op.name = "_unpack_tuple_keys"
    /\ ret.exc = ""
    /\ pre' = source
    /\ op' = [name |-> "_get_keys_to_drop_set"]
    /\ ret' = [exc |-> "", val |-> source, keys |-> _get_keys_to_drop_set(source, <<>>)]
    /\ UNCHANGED source

NextMapper == Call_unpack_tuple_keys \/ Call_get_keys_to_drop_set

SpecMapper == InitMapper /\ [][NextMapper]_vars

(***************************************************************************)
(* Properties of the Mapper                                                *)
(***************************************************************************)
\* The path of every marker in the tree: through mappings ("p.k") and
\* through sequences ("p[i]"), markers that are sequence elements included.
RECURSIVE MarkerPaths(_, _)
MarkerPaths(v, path) ==
    CASE IsROL(v) -> {path}
      [] IsDict(v) ->
            UNION {MarkerPaths(v.vs[i],
                               IF path # <<>> THEN path \o <<".">> \o KeyStr(v.ks[i])
                               ELSE KeyStr(v.ks[i])) : i \in 1..Len(v.ks)}
      [] IsList(v) ->
            UNION {MarkerPaths(v.vs[i], path \o <<"[">> \o NatStr(i - 1) \o <<"]">>) :
                      i \in 1..Len(v.vs)}
      [] OTHER -> {}

\* C8: the paths collected for pruning are exactly the full paths of the
\* locations of the unpacked result that hold a relative-pruning marker,
\* markers that are direct elements of a sequence ("k[2]") and markers in
\* mappings inside sequences included, and nothing else.
C8_AllMarkersCollected ==
    (op.name = "_get_keys_to_drop_set") => ret.keys = MarkerPaths(pre, <<>>)

\* Whether some mapping of the tree (at any level, inside sequences too) has
\* a group key; with mismatch set, one whose value is not a group of the
\* key's length.
RECURSIVE SomeGroupEntry(_, _)
SomeGroupEntry(v, mismatch) ==
    CASE IsDict(v) ->
            \E i \in 1..Len(v.ks) :
                \/ /\ v.ks[i].k = "tuple"
                   /\ mismatch => ~(v.vs[i].t = "tuple" /\ Len(v.vs[i].vs) = Len(v.ks[i].el))
                \/ SomeGroupEntry(v.vs[i], mismatch)
      [] IsList(v) -> \E i \in 1..Len(v.vs) : SomeGroupEntry(v.vs[i], mismatch)
      [] OTHER -> FALSE

\* C9: unpacking fails with an error when, at any level, the value of a
\* group key of n elements is not a group of exactly n elements; otherwise
\* each such entry is replaced by the entries key[i] -> value[i] at the same
\* level and no group key remains in the result.
C9_GroupShapeChecked ==
    (op.name = "_unpack_tuple_keys") =>
        /\ SomeGroupEntry(pre, TRUE) <=> ret.exc # ""
        /\ ret.exc = "" =>
              /\ ~SomeGroupEntry(ret.val, FALSE)
              /\ \A i \in 1..Len(pre.ks) :
                    pre.ks[i].k = "tuple" =>
                        \A j \in 1..Len(pre.ks[i].el) :
                            /\ HasKey(ret.val, pre.ks[i].el[j])
                            /\ ret.val.vs[KeyPos(ret.val, pre.ks[i].el[j])] = pre.vs[i].vs[j]

=============================================================================
